---- MODULE Spec2Model ----
(***************************************************************************)
(* A model of the two container formats of RCN_DASformat.                  *)
(*                                                                         *)
(*   src/miniDAS/format.py        Meta, miniDAS (from_numpy, is_valid,     *)
(*                                open, close): specification Spec         *)
(*   src/DAS_Format_reference.py  writeDAS, readDAS and their walks of     *)
(*                                the meta tree: specification RefSpec;    *)
(*                                checkDASFileFormat and compareDASdicts   *)
(*                                on loaded dictionaries: DictSpec         *)
(*   src/VendorReaders/ASN/basicASNreader.py (and its copy in src/)        *)
(*                                _unwrap: specification UnwrapSpec        *)
(*                                                                         *)
(* The parts share no state: each specification leaves the variables of    *)
(* the others alone.                                                       *)
(* A container also records the array from_numpy was given ("given"), a    *)
(* history field the round-trip property compares against.                 *)
(*                                                                         *)
(* The backing store is an HDF5 file reached through h5py.  A file is      *)
(* modelled by what the code stores in it and reads from it: whether it    *)
(* exists, whether it holds the dataset "miniDAS", the dataset's values    *)
(* and dtype, and the dataset's attributes (a mapping from attribute name  *)
(* to value, "version" included).  h5py's own rules that the code relies   *)
(* on are part of the operations: opening a missing file for reading       *)
(* fails, and a file that is open in this process cannot be truncated.     *)
(*                                                                         *)
(* Floating-point fields (gauge_length, strain_scale_factor, coordinates)  *)
(* are carried, never computed on, and stand as integers here.  Times are  *)
(* nanoseconds, and start times stay below 2^31; the end time of a         *)
(* container (format.py:97) and the phases under _unwrap are computed as   *)
(* the code computes them, in binary64, each operation rounded to the      *)
(* nearest number and a half to the even neighbour.                        *)
(***************************************************************************)
EXTENDS Integers, Sequences, FiniteSets, TLC

VARIABLES
    fs,          \* path -> the HDF5 file at that path (or no file)
    metas,       \* the heap of Meta objects, in order of construction
    containers,  \* the miniDAS objects constructed so far
    leaked,      \* path -> open h5py.File handles no container owns
    last,        \* the last call made and its outcome
    rfs,         \* path -> the HDF5 file writeDAS left at that path
    rlast,       \* the last call of the reference format and its outcome
    dcall,       \* the last check or comparison of loaded dictionaries
    uw,          \* the phase array under _unwrap and the calls made on it
    mfs,         \* path -> the HDF5 file the miniDAS reference reader sees
    mlast        \* the last call of the miniDAS reference reader

vars == <<fs, metas, containers, leaked, last, rfs, rlast, dcall, uw, mfs,
          mlast>>
refvars == <<rfs, rlast>>
libvars == <<fs, metas, containers, leaked, last>>
rdvars == <<mfs, mlast>>
fnvars == <<dcall, uw, rdvars>>

-----------------------------------------------------------------------------
(* Bounds of the model *)

MaxCallerMetas == 1
MaxContainers == 2
MaxLeaked == 1
\* the longest path of keys in a metadata dictionary given to writeDAS
MaxDepth == 2

(* Program constants *)

ClassVersion == 1
NsPerSec == 1000000000

Paths == {"a.hdf5"}

\* DataUnit, format.py:15-28
DataUnit ==
    {"rad", "m/m", "cm/m", "mm/m", "um/m", "nm/m",
     "rad/2", "m/m/2", "cm/m/2", "mm/m/2", "um/m/2", "nm/m/2"}

\* ScaledUnit, format.py:29
ScaledUnit == {"ue/s"}

\* _ALLOWED_DTYPES, format.py:30
AllowedDtypes == {"int16", "int32", "float32"}

\* The fields of the dataclass Meta, format.py:37-48
RequiredFields ==
    {"data_unit", "start_time_ns", "sampling_rate", "channel_spacing_m",
     "gauge_length", "strain_scale_factor", "units_after_scaling",
     "latitudes", "longitudes", "elevations"}

MetaFields == RequiredFields \cup {"end_time_ns", "interrogator"}

-----------------------------------------------------------------------------
(* Binary64 arithmetic *)

\* The code computes the end time of a container and the phases of _unwrap in
\* IEEE 754 binary64, round to nearest, ties to even.  A natural number of
\* any size is the sequence of its digits to the base Limb, lowest first,
\* the highest not 0; 0 is the empty sequence.
Limb == 2^15

Digit(a, i) == IF i <= Len(a) THEN a[i] ELSE 0

RECURSIVE BTrim(_)
BTrim(a) ==
    IF a = <<>> \/ a[Len(a)] # 0 THEN a ELSE BTrim(SubSeq(a, 1, Len(a) - 1))

RECURSIVE BFromInt(_)
BFromInt(n) == IF n = 0 THEN <<>> ELSE <<n % Limb>> \o BFromInt(n \div Limb)

RECURSIVE BToInt(_)
BToInt(a) == IF a = <<>> THEN 0 ELSE a[1] + Limb * BToInt(Tail(a))

RECURSIVE BCmpAt(_, _, _)
BCmpAt(a, b, i) ==
    IF i = 0 THEN 0
    ELSE IF a[i] > b[i] THEN 1
    ELSE IF a[i] < b[i] THEN -1
    ELSE BCmpAt(a, b, i - 1)

\* -1, 0 or 1 as a is below, equal to or above b
BCmp(a, b) ==
    IF Len(a) > Len(b) THEN 1
    ELSE IF Len(a) < Len(b) THEN -1
    ELSE BCmpAt(a, b, Len(a))

RECURSIVE BAddAt(_, _, _, _)
BAddAt(a, b, i, carry) ==
    IF i > Len(a) /\ i > Len(b)
    THEN IF carry = 0 THEN <<>> ELSE <<carry>>
    ELSE LET t == Digit(a, i) + Digit(b, i) + carry
         IN  <<t % Limb>> \o BAddAt(a, b, i + 1, t \div Limb)

BAdd(a, b) == BAddAt(a, b, 1, 0)

RECURSIVE BSubAt(_, _, _, _)
BSubAt(a, b, i, borrow) ==
    IF i > Len(a) THEN <<>>
    ELSE LET t == a[i] - Digit(b, i) - borrow
         IN  IF t < 0 THEN <<t + Limb>> \o BSubAt(a, b, i + 1, 1)
             ELSE <<t>> \o BSubAt(a, b, i + 1, 0)

\* a - b, for a not below b
BSub(a, b) == BTrim(BSubAt(a, b, 1, 0))

RECURSIVE BMulSmallAt(_, _, _, _)
BMulSmallAt(a, k, i, carry) ==
    IF i > Len(a) THEN IF carry = 0 THEN <<>> ELSE <<carry>>
    ELSE LET t == a[i] * k + carry
         IN  <<t % Limb>> \o BMulSmallAt(a, k, i + 1, t \div Limb)

\* a * k, for k below Limb
BMulSmall(a, k) == IF k = 0 THEN <<>> ELSE BMulSmallAt(a, k, 1, 0)

BShiftLimbs(a, w) == IF a = <<>> THEN <<>> ELSE [i \in 1..w |-> 0] \o a

RECURSIVE BMulAt(_, _, _)
BMulAt(a, b, i) ==
    IF i > Len(b) THEN <<>>
    ELSE BAdd(BShiftLimbs(BMulSmall(a, b[i]), i - 1), BMulAt(a, b, i + 1))

BMul(a, b) == BMulAt(a, b, 1)

\* a * 2^t
BShl(a, t) == BShiftLimbs(BMulSmall(a, 2^(t % 15)), t \div 15)

RECURSIVE BDivSmallAt(_, _, _, _)
BDivSmallAt(a, k, i, r) ==
    IF i = 0 THEN [q |-> <<>>, r |-> r]
    ELSE LET t == r * Limb + a[i]
             rest == BDivSmallAt(a, k, i - 1, t % k)
         IN  [q |-> rest.q \o <<t \div k>>, r |-> rest.r]

\* quotient and remainder of a by k, for k not above Limb
BDivSmall(a, k) ==
    LET d == BDivSmallAt(a, k, Len(a), 0) IN [q |-> BTrim(d.q), r |-> d.r]

\* a \div 2^t, and whether a bit was shifted out
BShr(a, t) ==
    LET w == t \div 15
        low == SubSeq(a, 1, IF w < Len(a) THEN w ELSE Len(a))
        d == BDivSmall(SubSeq(a, w + 1, Len(a)), 2^(t % 15))
    IN  [q |-> d.q,
         sticky |-> d.r # 0 \/ \E i \in 1..Len(low) : low[i] # 0]

\* the number of binary digits of a
BBitLen(a) ==
    IF a = <<>> THEN 0
    ELSE 15 * (Len(a) - 1)
         + CHOOSE k \in 1..15 : 2^(k - 1) <= a[Len(a)] /\ a[Len(a)] < 2^k

RECURSIVE BDigitAt(_, _, _, _)
\* The largest d, built from the digit found so far and the powers of two
\* from 2^j down, with d * b not above r
BDigitAt(r, b, j, d) ==
    IF j < 0 THEN d
    ELSE IF BCmp(BMulSmall(b, d + 2^j), r) <= 0
    THEN BDigitAt(r, b, j - 1, d + 2^j)
    ELSE BDigitAt(r, b, j - 1, d)

RECURSIVE BDivModAt(_, _, _, _)
BDivModAt(a, b, i, r) ==
    IF i = 0 THEN [q |-> <<>>, r |-> r]
    ELSE LET t == BTrim(<<a[i]>> \o r)
             d == BDigitAt(t, b, 14, 0)
             rest == BDivModAt(a, b, i - 1, BSub(t, BMulSmall(b, d)))
         IN  [q |-> rest.q \o <<d>>, r |-> rest.r]

\* quotient and remainder of a by b, b not 0: long division, digit by digit
BDivMod(a, b) ==
    LET d == BDivModAt(a, b, Len(a), <<>>) IN [q |-> BTrim(d.q), r |-> d.r]

\* A binary64 number is s * m * 2^e with the sign s (1 or -1), m odd or,
\* for zero, m empty; m has at most 53 binary digits.  The exponent is not
\* limited (no number of the model comes near the largest or the smallest
\* binary64), and the two zeros, which compare equal, are one.
FZero == [s |-> 1, m |-> <<>>, e |-> 0]

RECURSIVE FCanon(_, _, _)
FCanon(s, m, e) ==
    IF m = <<>> THEN FZero
    ELSE IF m[1] = 0 THEN FCanon(s, Tail(m), e + 15)
    ELSE IF m[1] % 2 = 0 THEN FCanon(s, BDivSmall(m, 2).q, e + 1)
    ELSE [s |-> s, m |-> m, e |-> e]

\* The binary64 nearest to s * (P + f) * 2^e, halves to the even neighbour,
\* where f is 0, or lies strictly between 0 and 1 when "more" is set (then P
\* has 55 digits or more).
FRound(s, P, e, more) ==
    IF BBitLen(P) <= 53 THEN FCanon(s, P, e)
    ELSE LET t == BBitLen(P) - 53
             h == BShr(P, t - 1)
             q == BShr(h.q, 1).q
             up == /\ h.q[1] % 2 = 1
                   /\ h.sticky \/ more \/ q[1] % 2 = 1
         IN  FCanon(s, IF up THEN BAdd(q, <<1>>) ELSE q, e + t)

\* float(n) of an integer n
FInt(n) == FCanon(IF n < 0 THEN -1 ELSE 1, BFromInt(IF n < 0 THEN -n ELSE n), 0)

FNeg(x) == IF x.m = <<>> THEN x ELSE [x EXCEPT !.s = -x.s]

FAbs(x) == [x EXCEPT !.s = 1]

FMul(x, y) == FRound(x.s * y.s, BMul(x.m, y.m), x.e + y.e, FALSE)

\* x / y, y not 0: the quotient of the digits to 56 places or more
FDiv(x, y) ==
    IF x.m = <<>> THEN FZero
    ELSE LET gap == 56 + BBitLen(y.m) - BBitLen(x.m)
             k == IF gap > 0 THEN gap ELSE 0
             d == BDivMod(BShl(x.m, k), y.m)
         IN  FRound(x.s * y.s, d.q, x.e - y.e - k, d.r # <<>>)

\* The digits of x and y on their common, lower exponent
FAlign(x, y) ==
    LET e == IF x.e < y.e THEN x.e ELSE y.e
    IN  [a |-> BShl(x.m, x.e - e), b |-> BShl(y.m, y.e - e), e |-> e]

FAdd(x, y) ==
    IF x.m = <<>> THEN y
    ELSE IF y.m = <<>> THEN x
    ELSE LET al == FAlign(x, y)
             c == BCmp(al.a, al.b)
         IN  IF x.s = y.s THEN FRound(x.s, BAdd(al.a, al.b), al.e, FALSE)
             ELSE IF c = 0 THEN FZero
             ELSE IF c > 0 THEN FRound(x.s, BSub(al.a, al.b), al.e, FALSE)
             ELSE FRound(y.s, BSub(al.b, al.a), al.e, FALSE)

FSub(x, y) == FAdd(x, FNeg(y))

\* x < y (a difference that is not 0 does not round to 0)
FLess(x, y) == FSub(x, y).s = -1

\* x % y of Python and np.mod, y not 0: the remainder of fmod, which is
\* exact and has the sign of x, moved by y when its sign is not that of y
FMod(x, y) ==
    IF x.m = <<>> THEN FZero
    ELSE LET al == FAlign(x, y)
             fm == FCanon(x.s, BDivMod(al.a, al.b).r, al.e)
         IN  IF fm.m = <<>> THEN FZero
             ELSE IF fm.s # y.s THEN FAdd(fm, y)
             ELSE fm

\* int(x) and astype of an integer type: the digits before the point
FTrunc(x) ==
    IF x.e >= 0 THEN x.s * BToInt(BShl(x.m, x.e))
    ELSE x.s * BToInt(BShr(x.m, -x.e).q)

-----------------------------------------------------------------------------
(* Inputs *)

\* A (channels x samples) array: vals[c][s].
Mat(nch, ns, seed) == [c \in 1..nch |-> [s \in 1..ns |-> seed + 10 * c + s]]

NoData == [dtype |-> "none", vals |-> <<>>]

\* The arrays a caller writes: one per allowed dtype, of different shapes
\* and values, and one of a dtype that is not allowed.
DataInputs ==
    {[dtype |-> "int32", vals |-> Mat(1, 1, 0)],
     [dtype |-> "int16", vals |-> Mat(1, 2, 1)],
     [dtype |-> "float32", vals |-> Mat(2, 1, 0)],
     [dtype |-> "float64", vals |-> Mat(1, 1, 0)]}

Geo(n, base) == [i \in 1..n |-> base + i]

BaseKwargs ==
    [data_unit |-> "cm/m", start_time_ns |-> 0, sampling_rate |-> 1,
     channel_spacing_m |-> 5, gauge_length |-> 10,
     strain_scale_factor |-> 1, units_after_scaling |-> "ue/s",
     latitudes |-> Geo(1, 48), longitudes |-> Geo(1, 2),
     elevations |-> Geo(1, 100)]

\* The sizes of latitudes, longitudes and elevations drawn: all equal, only
\* elevations different, only latitudes different, only longitudes
\* different.
GeometrySizes ==
    {<<1, 1, 1>>, <<2, 2, 2>>, <<1, 1, 2>>, <<1, 2, 2>>, <<1, 2, 1>>}

\* The keyword arguments a caller builds a Meta from.
MetaInputs ==
    {[BaseKwargs EXCEPT !.latitudes = Geo(g[1], 48),
                        !.longitudes = Geo(g[2], 2),
                        !.elevations = Geo(g[3], 100)] : g \in GeometrySizes}
    \cup {[BaseKwargs EXCEPT !.data_unit = "strain",
                             !.units_after_scaling = "m/s"],
          [BaseKwargs EXCEPT !.start_time_ns = 7, !.sampling_rate = 3,
                             !.gauge_length = 20, !.strain_scale_factor = 2]}

-----------------------------------------------------------------------------
(* h5py files *)

NoFile == [exists |-> FALSE, hasDataset |-> FALSE, data |-> NoData,
           attrs |-> <<>>]

\* An HDF5 file without a dataset named "miniDAS".
ForeignFile == [exists |-> TRUE, hasDataset |-> FALSE, data |-> NoData,
                attrs |-> <<>>]

MiniDASFile(data, attrs) ==
    [exists |-> TRUE, hasDataset |-> TRUE, data |-> data, attrs |-> attrs]

\* Files another producer may have left at a path before the program runs.
StoredAttrs(version, kw, end) ==
    [version |-> version, end_time_ns |-> end, interrogator |-> ""] @@ kw

InitialFiles ==
    {NoFile, ForeignFile,
     MiniDASFile([dtype |-> "int32", vals |-> Mat(1, 2, 0)],
                 StoredAttrs(2, BaseKwargs, 0)),
     MiniDASFile([dtype |-> "int32", vals |-> Mat(1, 2, 0)],
                 StoredAttrs(ClassVersion, BaseKwargs, 5)),
     \* an attribute that is no field of Meta
     MiniDASFile([dtype |-> "int32", vals |-> Mat(1, 1, 0)],
                 [scale_factor |-> 1]
                     @@ StoredAttrs(ClassVersion, BaseKwargs, 0)),
     \* geometry arrays of different lengths
     MiniDASFile([dtype |-> "int32", vals |-> Mat(1, 1, 0)],
                 StoredAttrs(ClassVersion,
                             [BaseKwargs EXCEPT !.longitudes = Geo(2, 2)],
                             0))}

\* Handles open on a path: those of unclosed containers and the leaked ones.
OpenHandles(p) ==
    Cardinality({i \in 1..Len(containers) :
                    containers[i].file = p /\ containers[i].open})
    + leaked[p]

-----------------------------------------------------------------------------
(* Meta, format.py:35-82 *)

\* Meta.__post_init__ raises, format.py:79
PostInitRaises(m) ==
    /\ Len(m.latitudes) # Len(m.longitudes)
    /\ Len(m.longitudes) # Len(m.elevations)

\* The dataclass __init__: every required field given, no unknown field,
\* end_time_ns and interrogator defaulted.
KwargsAccepted(kw) ==
    /\ RequiredFields \subseteq DOMAIN kw
    /\ DOMAIN kw \subseteq MetaFields

MetaOf(kw) ==
    [f \in MetaFields |->
        IF f \in DOMAIN kw THEN kw[f]
        ELSE IF f = "end_time_ns" THEN 0 ELSE ""]

\* miniDAS.__init__, format.py:97 (delta_t is 1.0 / sampling_rate)
EndTimeNs(start, rate, n) ==
    FTrunc(FAdd(FInt(start),
                FMul(FMul(FDiv(FInt(1), FInt(rate)), FInt(NsPerSec)),
                     FInt(n))))

NChannels(data) == Len(data.vals)
NSamples(data) == Len(data.vals[1])

\* EndTimeNs over the start times, sampling rates and sample counts the
\* model draws, computed once for the steps below.
EndTimes ==
    [start \in {kw.start_time_ns : kw \in MetaInputs},
     rate \in {kw.sampling_rate : kw \in MetaInputs},
     n \in {NSamples(data) : data \in DataInputs} |->
        EndTimeNs(start, rate, n)]

-----------------------------------------------------------------------------
(* The record of the last call *)

\* op: the function called; err: "ok" or the exception type it raised, with
\* the line of format.py that raised it; file, force: the arguments of that
\* name; ret: the index of the container returned; valid: the boolean
\* is_valid returned; existed: whether the file was there when the call was
\* made; wasOpen: whether the container close was called on was still open.
NoCall ==
    [op |-> "none", err |-> "ok", line |-> 0, file |-> "", force |-> FALSE,
     ret |-> 0, valid |-> FALSE, existed |-> FALSE, wasOpen |-> FALSE]

Ok(op) == [NoCall EXCEPT !.op = op]
Raised(op, err, line) == [NoCall EXCEPT !.op = op, !.err = err, !.line = line]

\* Metas the caller constructed: every other Meta was made by open.
CallerMetas ==
    Len(metas) - Cardinality({i \in 1..Len(containers) :
                                 containers[i].src = "open"})

-----------------------------------------------------------------------------
(* The reference format, DAS_Format_reference.py *)

\* version, DAS_Format_reference.py:32, in hundredths (0.92)
RefVersion == 92

RefPaths == {"b.das"}

\* Values of a metadata dictionary.  A dict holds its items in insertion
\* order, each a key and a value.  Keys are plain names: not empty and
\* without "/".
Scalar(x) == [kind |-> "scalar", v |-> x]
Str(x) == [kind |-> "str", v |-> x]
Array(x) == [kind |-> "array", v |-> x]
List(x) == [kind |-> "list", v |-> x]
Dict(items) == [kind |-> "dict", v |-> items]

Leaves == {Scalar(7), Str("x"), Array(<<1, 2>>), List(<<1, 2>>)}

RootKeys == {"a", "b"}
NestedKey == "c"

\* The values below the root: key paths of at most d nested keys.
RECURSIVE Nested(_)
Nested(d) ==
    Leaves \cup {Dict(<<>>)} \cup
    (IF d = 0 THEN {}
     ELSE {Dict(<<[k |-> NestedKey, v |-> t]>>) : t \in Nested(d - 1)})

KeySeqs ==
    {ks \in UNION {[1..n -> RootKeys] : n \in 0..Cardinality(RootKeys)} :
        \A i, j \in 1..Len(ks) : i # j => ks[i] # ks[j]}

\* The meta arguments drawn: a leaf, or a dictionary of the root keys in any
\* order whose values nest down to key paths of MaxDepth keys.
MetaTrees ==
    Leaves \cup
    UNION {{Dict([i \in 1..Len(ks) |-> [k |-> ks[i], v |-> vs[i]]]) :
               vs \in [1..Len(ks) -> Nested(MaxDepth - 1)]} :
           ks \in KeySeqs}

\* The other arguments of writeDAS; traces is (nSample, nChannel).
RefHeaders ==
    {[traces |-> [dtype |-> "float32", vals |-> Mat(2, 1, 0)], domain |-> "strain", t0 |-> 0, fsamp |-> 1,
      GL |-> 10, lats |-> Geo(1, 48), longs |-> Geo(1, 2),
      elev |-> Geo(1, 100)],
     [traces |-> [dtype |-> "float32", vals |-> Mat(1, 2, 5)],
      domain |-> "strainrate", t0 |-> 7, fsamp |-> 3, GL |-> 20, lats |-> Geo(2, 48), longs |-> Geo(2, 2),
      elev |-> Geo(2, 100)]}

\* A file of the reference format: the dataset "traces", the attributes of
\* the root and, in order of creation, the groups and datasets below it.
RefNoFile == [exists |-> FALSE, traces |-> NoData, attrs |-> <<>>,
              objs |-> <<>>]

\* What readDAS returns: the dictionary "das", DAS_Format_reference.py:255-273
NoDas == [DASFileVersion |-> 0, traces |-> NoData, domain |-> "", t0 |-> 0,
          fsamp |-> 0, GL |-> 0, lats |-> <<>>, longs |-> <<>>, elev |-> <<>>,
          meta |-> Dict(<<>>)]

RefNoCall == [op |-> "none", file |-> "", err |-> "ok", line |-> 0,
              msg |-> "", meta |-> Dict(<<>>), das |-> NoDas]

\* No check or comparison made yet.
DictNoCall == [op |-> "none", a |-> NoDas, b |-> NoDas, err |-> "ok",
               line |-> 0, valid |-> FALSE, msg |-> <<>>]

\* No phase array yet.
UnwrapNoCall == [op |-> "none", phi |-> <<>>, dtype |-> "float64",
                 wrapStep |-> 1, err |-> "ok", out |-> <<>>]

-----------------------------------------------------------------------------
(* The miniDAS reference reader, miniDAS/reader.py *)

ReaderPaths == {"c.miniDAS", "d.miniDAS"}

\* The names the module reader.py binds: its imports (lines 8-10) and the
\* functions it defines.  No line of the module assigns "version".
ReaderGlobals ==
    [h5py |-> "module", np |-> "module", ez_waterfall |-> "function",
     make_dummy_data |-> "function", _readDictInH5 |-> "function",
     infoDAS |-> "function", writeDAS |-> "function", readDAS |-> "function"]

\* The arguments of writeDAS other than fname and meta, reader.py:175-186;
\* traces is (nSample, nChannel).
ReaderHeaders ==
    {[traces |-> [dtype |-> "float32", vals |-> Mat(2, 1, 0)],
      data_units |-> "rad", scale_factor |-> 3,
      units_after_scaling |-> "ue/s", start_time |-> 0, sampling_rate |-> 1,
      gauge_length |-> 10, latitudes |-> Geo(1, 48),
      longitudes |-> Geo(1, 2), elevations |-> Geo(1, 100)],
     [traces |-> [dtype |-> "float32", vals |-> Mat(1, 2, 5)],
      data_units |-> "rad", scale_factor |-> 1,
      units_after_scaling |-> "rad", start_time |-> 7, sampling_rate |-> 3,
      gauge_length |-> 20, latitudes |-> Geo(2, 48),
      longitudes |-> Geo(2, 2), elevations |-> Geo(2, 100)]}

\* The attributes writeDAS sets on the root, reader.py:241-272
ReaderAttrs(h, version) ==
    [format |-> "miniDAS", version |-> version, data_units |-> h.data_units,
     scale_factor |-> h.scale_factor,
     units_after_scaling |-> h.units_after_scaling,
     start_time |-> h.start_time, sampling_rate |-> h.sampling_rate,
     gauge_length |-> h.gauge_length, latitudes |-> h.latitudes,
     longitudes |-> h.longitudes, elevations |-> h.elevations]

ReaderNoFile == [exists |-> FALSE, traces |-> NoData, attrs |-> <<>>,
                 objs |-> <<>>]

\* The files readDAS can find at a path before any call: none, a miniDAS
\* file another writer produced (all attributes, an empty group "meta", the
\* version a string), a file of another format and an HDF5 file that
\* carries no attribute "format".
ReaderInitialFiles ==
    {ReaderNoFile}
    \cup {[exists |-> TRUE, traces |-> h.traces,
           attrs |-> ReaderAttrs(h, "1.0"),
           objs |-> <<[path |-> "meta", kind |-> "group"]>>] :
          h \in ReaderHeaders}
    \cup {[exists |-> TRUE, traces |-> NoData, attrs |-> [format |-> "other"],
           objs |-> <<>>],
          [exists |-> TRUE, traces |-> NoData,
           attrs |-> [DASFileVersion |-> RefVersion], objs |-> <<>>]}

\* What readDAS returns: the dictionary "das", reader.py:292-320
ReaderNoDas ==
    [format |-> "", version |-> "", traces |-> NoData, data_units |-> "",
     scale_factor |-> 0, units_after_scaling |-> "", start_time |-> 0,
     sampling_rate |-> 0, gauge_length |-> 0, latitudes |-> <<>>,
     longitudes |-> <<>>, elevations |-> <<>>, meta |-> Dict(<<>>)]

ReaderNoCall == [op |-> "none", file |-> "", apply_scaling |-> FALSE,
                 err |-> "ok", line |-> 0, das |-> ReaderNoDas]

-----------------------------------------------------------------------------
Init ==
    /\ fs \in [Paths -> InitialFiles]
    /\ metas = <<>>
    /\ containers = <<>>
    /\ leaked = [p \in Paths |-> 0]
    /\ last = NoCall
    /\ rfs = [p \in RefPaths |-> RefNoFile]
    /\ rlast = RefNoCall
    /\ dcall = DictNoCall
    /\ uw = UnwrapNoCall
    /\ mfs = [p \in ReaderPaths |-> ReaderNoFile]
    /\ mlast = ReaderNoCall

\* The caller constructs Meta(**kw), format.py:36-82
MetaNew(kw) ==
    /\ CallerMetas < MaxCallerMetas
    /\ UNCHANGED <<refvars, fnvars>>
    /\ IF PostInitRaises(MetaOf(kw))
       THEN /\ last' = Raised("Meta", "AttributeError", 80)
            /\ UNCHANGED <<fs, metas, containers, leaked>>
       ELSE /\ metas' = Append(metas, MetaOf(kw))
            /\ last' = Ok("Meta")
            /\ UNCHANGED <<fs, containers, leaked>>

\* What from_numpy leaves in the file, format.py:136-145: the dataset, its
\* "version" attribute and one attribute per field of asdict(meta).
\* Mutant: the scale factor is not stored (the attribute keeps a default).
WrittenWithoutScale(old, data, meta) ==
    MiniDASFile(data, [version |-> ClassVersion]
                          @@ [meta EXCEPT !.strain_scale_factor = 1])

\* Mutant: the file is opened for update, the old attributes stay.
WrittenKeepsOld(old, data, meta) ==
    MiniDASFile(data, ([version |-> ClassVersion] @@ meta) @@ old.attrs)

\* h5py.File(file, "w") truncates: nothing of the old file is kept.
Written(old, data, meta) ==
    MiniDASFile(data, [version |-> ClassVersion] @@ meta)

\* Mutant: the dtype is not checked.
FromNumpyCheckNoDtype(file, data, m, force) ==
    IF fs[file].exists /\ ~force THEN <<"OSError", 125>>
    ELSE IF Len(metas[m].latitudes) # NChannels(data)
         THEN <<"AttributeError", 131>>
    ELSE <<"ok", 0>>

\* The checks of from_numpy before it opens the file, format.py:124-134:
\* "ok" or the exception raised.
FromNumpyCheck(file, data, m, force) ==
    IF fs[file].exists /\ ~force THEN <<"OSError", 125>>
    ELSE IF data.dtype \notin AllowedDtypes THEN <<"TypeError", 128>>
    ELSE IF Len(metas[m].latitudes) # NChannels(data)
         THEN <<"AttributeError", 131>>
    ELSE <<"ok", 0>>

\* Mutant: the file is created before the dtype and the channel count are
\* checked.
FromNumpyWritesFirst(file, data, m, force) ==
    LET chk == FromNumpyCheck(file, data, m, force)
        call == [NoCall EXCEPT !.op = "from_numpy", !.file = file,
                               !.force = force,
                               !.existed = fs[file].exists]
    IN  /\ Len(containers) < MaxContainers
        /\ UNCHANGED <<refvars, fnvars>>
        /\ chk[1] \in {"TypeError", "AttributeError"}
        /\ OpenHandles(file) = 0
        /\ fs' = [fs EXCEPT ![file] = Written(fs[file], data, metas[m])]
        /\ last' = [call EXCEPT !.err = chk[1], !.line = chk[2]]
        /\ UNCHANGED <<metas, containers, leaked>>

\* miniDAS.from_numpy(file, data, meta, force=force), format.py:100-147
FromNumpy(file, data, m, force) ==
    LET chk == FromNumpyCheck(file, data, m, force)
        call == [NoCall EXCEPT !.op = "from_numpy", !.file = file,
                               !.force = force,
                               !.existed = fs[file].exists]
    IN  /\ Len(containers) < MaxContainers
        /\ UNCHANGED <<refvars, fnvars>>
        /\ IF chk[1] # "ok"
           THEN /\ last' = [call EXCEPT !.err = chk[1], !.line = chk[2]]
                /\ UNCHANGED <<fs, metas, containers, leaked>>
           ELSE IF OpenHandles(file) > 0
           THEN \* h5py.File(file, "w") cannot truncate a file that is open
                /\ last' = [call EXCEPT !.err = "OSError", !.line = 136]
                /\ UNCHANGED <<fs, metas, containers, leaked>>
           ELSE /\ fs' = [fs EXCEPT ![file] = Written(fs[file], data, metas[m])]
                /\ metas' =
                       [metas EXCEPT ![m].end_time_ns =
                           EndTimes[metas[m].start_time_ns,
                                    metas[m].sampling_rate, NSamples(data)]]
                /\ containers' =
                       Append(containers,
                              [file |-> file, meta |-> m, open |-> TRUE,
                               src |-> "from_numpy", given |-> data])
                /\ last' = [call EXCEPT !.ret = Len(containers) + 1]
                /\ UNCHANGED leaked

\* miniDAS.is_valid(file), format.py:149-169: TRUE, FALSE or the exception.
\* Mutant: the version attribute is not compared.
IsValidIgnoresVersion(f) ==
    IF ~f.exists THEN <<"OSError", 161>>
    ELSE IF ~f.hasDataset THEN <<"AttributeError", 163>>
    ELSE IF "version" \notin DOMAIN f.attrs THEN <<"KeyError", 163>>
    ELSE <<"ok", TRUE>>

\* Mutant: a missing dataset goes unnoticed.
IsValidIgnoresDataset(f) ==
    IF ~f.exists THEN <<"OSError", 161>>
    ELSE IF "version" \notin DOMAIN f.attrs THEN <<"ok", TRUE>>
    ELSE IF f.attrs["version"] # ClassVersion THEN <<"ok", FALSE>>
    ELSE <<"ok", TRUE>>

\* f is the file at the path given.
IsValidResult(f) ==
    IF ~f.exists THEN <<"OSError", 161>>
    ELSE IF ~f.hasDataset THEN <<"AttributeError", 163>>
    ELSE IF "version" \notin DOMAIN f.attrs THEN <<"KeyError", 163>>
    ELSE IF f.attrs["version"] # ClassVersion THEN <<"ok", FALSE>>
    ELSE <<"ok", TRUE>>

IsValid(file) ==
    LET r == IsValidResult(fs[file])
        call == [NoCall EXCEPT !.op = "is_valid", !.file = file,
                               !.existed = fs[file].exists]
    IN  /\ last' = IF r[1] = "ok" THEN [call EXCEPT !.valid = r[2]]
                   ELSE [call EXCEPT !.err = r[1], !.line = r[2]]
        /\ UNCHANGED <<fs, metas, containers, leaked>>
        /\ UNCHANGED <<refvars, fnvars>>

\* dict(**dataset.attrs) with "version" popped, format.py:190-191
AttrsWithoutVersion(attrs) ==
    [k \in DOMAIN attrs \ {"version"} |-> attrs[k]]

\* miniDAS.open(file), format.py:171-193
Open(file) ==
    LET r == IsValidResult(fs[file])
        call == [NoCall EXCEPT !.op = "open", !.file = file,
                               !.existed = fs[file].exists]
        kw == AttrsWithoutVersion(fs[file].attrs)
        meta == MetaOf(kw)
    IN  /\ Len(containers) < MaxContainers
        /\ UNCHANGED <<refvars, fnvars>>
        /\ IF r[1] # "ok"
           THEN /\ last' = [call EXCEPT !.err = r[1], !.line = r[2]]
                /\ UNCHANGED <<fs, metas, containers, leaked>>
           ELSE IF ~r[2]
           THEN /\ last' = [call EXCEPT !.err = "AttributeError", !.line = 186]
                /\ UNCHANGED <<fs, metas, containers, leaked>>
           ELSE IF ~KwargsAccepted(kw)
           THEN \* Meta(**meta) raises with the file already open
                /\ leaked[file] < MaxLeaked
                /\ last' = [call EXCEPT !.err = "TypeError", !.line = 193]
                /\ leaked' = [leaked EXCEPT ![file] = @ + 1]
                /\ UNCHANGED <<fs, metas, containers>>
           ELSE IF PostInitRaises(meta)
           THEN /\ leaked[file] < MaxLeaked
                /\ last' = [call EXCEPT !.err = "AttributeError", !.line = 80]
                /\ leaked' = [leaked EXCEPT ![file] = @ + 1]
                /\ UNCHANGED <<fs, metas, containers>>
           ELSE /\ metas' =
                       Append(metas,
                              [meta EXCEPT !.end_time_ns =
                                  EndTimes[meta.start_time_ns,
                                           meta.sampling_rate,
                                           NSamples(fs[file].data)]])
                /\ containers' =
                       Append(containers,
                              [file |-> file, meta |-> Len(metas) + 1,
                               open |-> TRUE, src |-> "open",
                               given |-> NoData])
                /\ last' = [call EXCEPT !.ret = Len(containers) + 1]
                /\ UNCHANGED <<fs, leaked>>

\* Mutant: the handle is closed without the test of line 197 and a closed
\* handle refuses.
CloseUnguarded(c) ==
    /\ containers' = [containers EXCEPT ![c].open = FALSE]
    /\ last' = [(IF containers[c].open THEN Ok("close")
                 ELSE Raised("close", "ValueError", 198))
                    EXCEPT !.ret = c, !.file = containers[c].file,
                           !.wasOpen = containers[c].open]
    /\ UNCHANGED <<fs, metas, leaked>>
    /\ UNCHANGED <<refvars, fnvars>>

\* miniDAS.close(), format.py:195-198: "if self._file" is true while the
\* handle is open; a closed handle is skipped, so every call returns.
Close(c) ==
    /\ containers' = [containers EXCEPT ![c].open = FALSE]
    /\ last' = [Ok("close") EXCEPT !.ret = c, !.file = containers[c].file,
                                   !.wasOpen = containers[c].open]
    /\ UNCHANGED <<fs, metas, leaked>>
    /\ UNCHANGED <<refvars, fnvars>>

\* A handle no object refers to is closed when it is collected.
Collect(file) ==
    /\ leaked[file] > 0
    /\ leaked' = [leaked EXCEPT ![file] = @ - 1]
    /\ last' = [Ok("collect") EXCEPT !.file = file]
    /\ UNCHANGED <<fs, metas, containers>>
    /\ UNCHANGED <<refvars, fnvars>>

Next ==
    \/ \E kw \in MetaInputs : MetaNew(kw)
    \/ \E file \in Paths, data \in DataInputs, m \in 1..Len(metas),
          force \in BOOLEAN : FromNumpy(file, data, m, force)
    \/ \E file \in Paths : IsValid(file)
    \/ \E file \in Paths : Open(file)
    \/ \E c \in 1..Len(containers) : Close(c)
    \/ \E file \in Paths : Collect(file)

Spec == Init /\ [][Next]_vars

-----------------------------------------------------------------------------
(* writeDAS, DAS_Format_reference.py:180-238 *)

\* The message of the TypeError, DAS_Format_reference.py:212
ListMessage(key) ==
    "Type 'LIST' for field '" \o key \o "' is not supported in HDF5 format"

\* The state of a walk: the groups and datasets created so far, and the
\* exception raised, if any.
WalkStart == [objs |-> <<>>, err |-> "ok", line |-> 0, msg |-> ""]

RECURSIVE WalkingDictStoring(_, _, _, _), WalkKeys(_, _, _, _)

\* for grp in dataset.keys(): _walkingDictStoring(key, grp, dataset[grp]),
\* DAS_Format_reference.py:208-209; an exception ends the loop.
WalkKeys(key, items, i, st) ==
    IF i > Len(items) \/ st.err # "ok" THEN st
    ELSE WalkKeys(key, items, i + 1,
                  WalkingDictStoring(key, items[i].k, items[i].v, st))

\* Mutant: the message names the enclosing group, not the key.
WalkingDictStoringNamesTrunk(trunk, group, dataset, st) ==
    LET key == IF group = "" THEN trunk ELSE trunk \o "/" \o group
    IN  IF dataset.kind = "dict"
        THEN WalkKeys(key, dataset.v, 1,
                      [st EXCEPT !.objs =
                          Append(@, [path |-> key, kind |-> "group"])])
        ELSE IF dataset.kind = "list"
        THEN [st EXCEPT !.err = "TypeError", !.line = 212,
                        !.msg = ListMessage(trunk)]
        ELSE [st EXCEPT !.objs =
                 Append(@, [path |-> key, kind |-> "dataset",
                            data |-> dataset])]

\* _walkingDictStoring(trunk, group, dataset), DAS_Format_reference.py:201-213
WalkingDictStoring(trunk, group, dataset, st) ==
    LET key == IF group = "" THEN trunk ELSE trunk \o "/" \o group
    IN  IF dataset.kind = "dict"
        THEN WalkKeys(key, dataset.v, 1,
                      [st EXCEPT !.objs =
                          Append(@, [path |-> key, kind |-> "group"])])
        ELSE IF dataset.kind = "list"
        THEN [st EXCEPT !.err = "TypeError", !.line = 212,
                        !.msg = ListMessage(key)]
        ELSE [st EXCEPT !.objs =
                 Append(@, [path |-> key, kind |-> "dataset",
                            data |-> dataset])]

\* The attributes writeDAS sets on the root, DAS_Format_reference.py:227-234
RefAttrs(h) ==
    [DASFileVersion |-> RefVersion, domain |-> h.domain, t0 |-> h.t0,
     fsamp |-> h.fsamp, GL |-> h.GL, lats |-> h.lats, longs |-> h.longs,
     elev |-> h.elev]

\* writeDAS(fname, traces, domain, t0, fsamp, GL, lats, longs, elev, meta)
\* with a file name given (the automatic name of an empty fname, lines
\* 218-222, is not drawn).  h5py.File(fname, "w") truncates the file; the
\* traces and the attributes are stored before the walk, and what was stored
\* when the walk raises stays in the file the with statement closes.
WriteDAS(fname, h, meta) ==
    LET st == WalkingDictStoring("meta", "", meta, WalkStart)
    IN  /\ rfs' = [rfs EXCEPT ![fname] =
                      [exists |-> TRUE, traces |-> h.traces,
                       attrs |-> RefAttrs(h), objs |-> st.objs]]
        /\ rlast' = [op |-> "writeDAS", file |-> fname, err |-> st.err,
                     line |-> st.line, msg |-> st.msg, meta |-> meta,
                     das |-> NoDas]
        /\ UNCHANGED <<libvars, fnvars>>

\* The names a group lists, dataset.keys(): h5py iterates the members of a
\* group in the order of their names, not in the order of creation.
KeyOrder == <<"a", "b", "c">>

HasObj(objs, path) == \E i \in 1..Len(objs) : objs[i].path = path

ObjAt(objs, path) ==
    objs[CHOOSE i \in 1..Len(objs) : objs[i].path = path]

\* dataset[()], DAS_Format_reference.py:118: what h5py (3.x) hands back for
\* a stored dataset.  A number and an array come back with their value; a
\* str was stored as a variable-length string and comes back as bytes.
ReadBack(data) ==
    IF data.kind = "str" THEN [kind |-> "bytes", v |-> data.v] ELSE data

\* _readDictInH5(trunk, group, dataset), DAS_Format_reference.py:89-137,
\* with dataset the path of the h5py object in the file; the key built from
\* trunk and group is only printed (show=True).  Every h5py.Dataset has
\* __len__, so line 118 is the branch taken.
RECURSIVE ReadDictInH5(_, _)
ReadDictInH5(dataset, objs) ==
    IF ObjAt(objs, dataset).kind = "group"
    THEN LET names == SelectSeq(KeyOrder,
                          LAMBDA k : HasObj(objs, dataset \o "/" \o k))
         IN  Dict([i \in 1..Len(names) |->
                     [k |-> names[i],
                      v |-> ReadDictInH5(dataset \o "/" \o names[i], objs)]])
    ELSE ReadBack(ObjAt(objs, dataset).data)

\* readDAS(fname), DAS_Format_reference.py:244-274.  A missing file makes
\* h5py.File raise; another version prints and calls exit(); a file whose
\* walk stopped before "meta" was created has no such member (KeyError).
ReadDAS(fname) ==
    LET f == rfs[fname]
        call == [RefNoCall EXCEPT !.op = "readDAS", !.file = fname]
    IN  /\ rlast' =
              IF ~f.exists
              THEN [call EXCEPT !.err = "FileNotFoundError", !.line = 254]
              ELSE IF f.attrs.DASFileVersion # RefVersion
              THEN [call EXCEPT !.err = "SystemExit", !.line = 259]
              ELSE IF ~HasObj(f.objs, "meta")
              THEN [call EXCEPT !.err = "KeyError", !.line = 273]
              ELSE [call EXCEPT !.das =
                       [DASFileVersion |-> f.attrs.DASFileVersion,
                        traces |-> f.traces, domain |-> f.attrs.domain,
                        t0 |-> f.attrs.t0, fsamp |-> f.attrs.fsamp,
                        GL |-> f.attrs.GL, lats |-> f.attrs.lats,
                        longs |-> f.attrs.longs, elev |-> f.attrs.elev,
                        meta |-> ReadDictInH5("meta", f.objs)]]
        /\ UNCHANGED <<rfs, libvars, fnvars>>

RefInit ==
    /\ rfs = [p \in RefPaths |-> RefNoFile]
    /\ rlast = RefNoCall
    /\ dcall = DictNoCall
    /\ uw = UnwrapNoCall
    /\ mfs = [p \in ReaderPaths |-> ReaderNoFile]
    /\ mlast = ReaderNoCall
    /\ fs = [p \in Paths |-> NoFile]
    /\ metas = <<>>
    /\ containers = <<>>
    /\ leaked = [p \in Paths |-> 0]
    /\ last = NoCall

RefNext ==
    \/ \E fname \in RefPaths, h \in RefHeaders, meta \in MetaTrees :
          WriteDAS(fname, h, meta)
    \/ \E fname \in RefPaths : ReadDAS(fname)

RefSpec == RefInit /\ [][RefNext]_vars

-----------------------------------------------------------------------------
(* checkDASFileFormat and compareDASdicts, DAS_Format_reference.py *)

\* The dictionaries checked and compared: what readDAS returns or a caller
\* builds (make_dummy_data).  traces is (nSample, nChannel), all of one
\* shape; the base has two channels.
BaseDas ==
    [DASFileVersion |-> RefVersion,
     traces |-> [dtype |-> "float32", vals |-> <<<<11, 12>>>>],
     domain |-> "strain", t0 |-> 0, fsamp |-> 1, GL |-> 10,
     lats |-> Geo(2, 48), longs |-> Geo(2, 2), elev |-> Geo(2, 100),
     meta |-> Dict(<<>>)]

DasInputs ==
    {BaseDas,
     [BaseDas EXCEPT !.DASFileVersion = 91],
     \* one sample of two differs; every sample differs; another dtype
     [BaseDas EXCEPT !.traces.vals = <<<<11, 13>>>>],
     [BaseDas EXCEPT !.traces.vals = <<<<16, 17>>>>],
     [BaseDas EXCEPT !.traces.dtype = "float64"],
     [BaseDas EXCEPT !.domain = "Strain"],
     [BaseDas EXCEPT !.domain = "strainrate"],
     [BaseDas EXCEPT !.domain = "velocity"],
     [BaseDas EXCEPT !.t0 = 7],
     [BaseDas EXCEPT !.fsamp = 3],
     [BaseDas EXCEPT !.GL = 20],
     [BaseDas EXCEPT !.lats = Geo(1, 48)],
     [BaseDas EXCEPT !.longs = Geo(1, 2)],
     [BaseDas EXCEPT !.elev = Geo(1, 100)],
     [BaseDas EXCEPT !.elev = Geo(2, 200)],
     \* several fields at once
     [BaseDas EXCEPT !.DASFileVersion = 91, !.longs = Geo(1, 2),
                     !.domain = "velocity"],
     [BaseDas EXCEPT !.t0 = 7, !.fsamp = 3, !.lats = Geo(2, 50)],
     [BaseDas EXCEPT !.DASFileVersion = 91, !.traces.dtype = "float64",
                     !.domain = "velocity"]}

\* str.upper() on the domains drawn
Upper(domain) ==
    CASE domain \in {"strain", "Strain"} -> "STRAIN"
      [] domain = "strainrate" -> "STRAINRATE"
      [] domain = "velocity" -> "VELOCITY"

\* The messages of checkDASFileFormat, lines 296-316
VersionMessage == "DAS File Version is not 0.92"
LongsMessage == "lats and longs have diffrent lengths"
ElevMessage == "lats and elev have diffrent lengths"
DomainMessage(das) ==
    "Data seems to be in " \o das.domain
        \o " but only STRAIN or STRAINRATE data are acceptable"

AppendIf(msg, cond, text) == IF cond THEN Append(msg, text) ELSE msg

\* checkDASFileFormat(das), DAS_Format_reference.py:277-324.  The message of
\* line 312 is built as str + numpy.dtype, which raises TypeError: for
\* traces of another dtype than float32 the function ends there, with
\* nothing printed and nothing returned.
CheckDASFileFormat(das) ==
    LET m1 == AppendIf(<<"ERROR:">>, das.DASFileVersion # RefVersion,
                       VersionMessage)
        m2 == AppendIf(m1, Len(das.lats) # Len(das.longs), LongsMessage)
        m3 == AppendIf(m2, Len(das.lats) # Len(das.elev), ElevMessage)
        m4 == AppendIf(m3, Upper(das.domain) \notin {"STRAIN", "STRAINRATE"},
                       DomainMessage(das))
        call == [DictNoCall EXCEPT !.op = "checkDASFileFormat", !.a = das]
    IN  /\ dcall' =
              IF das.traces.dtype # "float32"
              THEN [call EXCEPT !.err = "TypeError", !.line = 312,
                                !.msg = m3]
              ELSE [call EXCEPT !.msg = m4, !.valid = (Len(m4) = 1)]
        /\ UNCHANGED <<libvars, refvars, uw, rdvars>>

\* np.min(abs(t1 - t2)) over every sample of two arrays of one shape
AbsDiffs(t1, t2) ==
    {IF t1[i][j] >= t2[i][j] THEN t1[i][j] - t2[i][j]
     ELSE t2[i][j] - t1[i][j] : i \in DOMAIN t1, j \in DOMAIN t1[1]}

Min(S) == CHOOSE x \in S : \A y \in S : x <= y
Max(S) == CHOOSE x \in S : \A y \in S : x >= y

\* The messages of compareDASdicts, lines 346-379
TraceMessage == "Trace values don't match"
DomainsMessage(das2) == "Data domain do not match " \o das2.domain

\* compareDASdicts(das1, das2), DAS_Format_reference.py:330-386.  Line 351
\* takes the smallest of the differences, line 355 compares the domain of
\* das1 with itself; GL and the meta tree are not looked at.
CompareDASdicts(das1, das2) ==
    LET m1 == AppendIf(<<"ERROR:">>,
                       das1.DASFileVersion # das2.DASFileVersion,
                       "File Versions do not match")
        m2 == AppendIf(m1,
                       Min(AbsDiffs(das1.traces.vals, das2.traces.vals)) > 0,
                       TraceMessage)
        m3 == AppendIf(m2, Upper(das1.domain) # Upper(das1.domain),
                       DomainsMessage(das2))
        m4 == AppendIf(m3, das1.t0 # das2.t0, "T0 value doesn't match")
        m5 == AppendIf(m4, das1.fsamp # das2.fsamp,
                       "fsamp value doesn't match")
        m6 == AppendIf(m5, das1.longs # das2.longs,
                       "longs value don't match")
        m7 == AppendIf(m6, das1.lats # das2.lats, "lats value don't match")
        m8 == AppendIf(m7, das1.elev # das2.elev, "elev value don't match")
    IN  /\ dcall' = [DictNoCall EXCEPT !.op = "compareDASdicts",
                                      !.a = das1, !.b = das2,
                                      !.msg = m8, !.valid = (Len(m8) = 1)]
        /\ UNCHANGED <<libvars, refvars, uw, rdvars>>

DictInit == RefInit

DictNext ==
    \/ \E das \in DasInputs : CheckDASFileFormat(das)
    \/ \E das1 \in DasInputs, das2 \in DasInputs : CompareDASdicts(das1, das2)

DictSpec == DictInit /\ [][DictNext]_vars

-----------------------------------------------------------------------------
(* _unwrap, basicASNreader.py *)

\* The longest phase array drawn.
MaxPhaseLen == 3

\* phi is one line of the array along the axis (np.unwrap treats every line
\* by itself), of whole numbers held as float64 or as int64; wrapStep is a
\* whole number.
PhaseValues == {-6, 0, 5}
PhaseInputs == UNION {[1..n -> PhaseValues] : n \in 1..MaxPhaseLen}
PhaseDtypes == {"float64", "int64"}
WrapSteps == {-2, 0, 2, 3}

\* The elements of an array as binary64 numbers
Floats(phi) == [i \in 1..Len(phi) |-> FInt(phi[i])]

\* 2*np.pi, 6.283185307179586 = 884279719003555 * 2^-47
TwoPi == [s |-> 1, m |-> <<1443, 21777, 4349, 25>>, e |-> -47]

\* ph_correct.cumsum(): the sums are taken one element after the other
RECURSIVE CumSum(_, _)
CumSum(c, i) == IF i = 1 THEN c[1] ELSE FAdd(CumSum(c, i - 1), c[i])

\* np.unwrap(p) along the line, period 2*pi and discont period/2:
\*   dd = diff(p)
\*   ddmod = mod(dd - interval_low, period) + interval_low
\*   copyto(ddmod, interval_high, where=(ddmod == interval_low) & (dd > 0))
\*   ph_correct = ddmod - dd, set to 0 where abs(dd) < discont
\*   up[1:] = p[1:] + ph_correct.cumsum()
NpUnwrap(p) ==
    LET period == TwoPi
        discont == FDiv(period, FInt(2))
        interval_high == FDiv(period, FInt(2))
        interval_low == FNeg(interval_high)
        dd == [i \in 1..(Len(p) - 1) |-> FSub(p[i + 1], p[i])]
        ddmod == [i \in 1..Len(dd) |->
                     LET v == FAdd(FMod(FSub(dd[i], interval_low), period),
                                   interval_low)
                     IN  IF v = interval_low /\ FLess(FZero, dd[i])
                         THEN interval_high ELSE v]
        ph_correct == [i \in 1..Len(dd) |->
                          IF FLess(FAbs(dd[i]), discont) THEN FZero
                          ELSE FSub(ddmod[i], dd[i])]
    IN  [i \in 1..Len(p) |->
            IF i = 1 THEN p[1] ELSE FAdd(p[i], CumSum(ph_correct, i - 1))]

\* (np.unwrap(phi*scale)/scale).astype(phi.dtype) with scale =
\* 2*np.pi / wrapStep, basicASNreader.py:37-38, for wrapStep not 0.  The
\* products and the quotients are float64 for either dtype of phi; astype
\* of int64 cuts the fraction off.
UnwrapArray(phi, dtype, wrapStep) ==
    LET scale == FDiv(TwoPi, FInt(wrapStep))
        up == NpUnwrap([i \in 1..Len(phi) |-> FMul(phi[i], scale)])
    IN  [i \in 1..Len(phi) |->
            IF dtype = "int64" THEN FInt(FTrunc(FDiv(up[i], scale)))
            ELSE FDiv(up[i], scale)]

NaN == "nan"

\* What astype(int64) makes of a NaN: the conversion is undefined in C, the
\* value depends on the machine, -2^63 on x86-64 and 0 on aarch64.
NaNAsInt64 == {[s |-> -1, m |-> <<1>>, e |-> 63], FZero}

\* What a call of _unwrap(phi, wrapStep) ends in, basicASNreader.py:25-38:
\* no line tests wrapStep.  wrapStep = 0 divides by zero at line 37:
\* ZeroDivisionError for a Python number; for a numpy scalar the scale is inf
\* (a RuntimeWarning), every element of np.unwrap(phi*scale)/scale is NaN and
\* nothing is raised: a float64 array of NaN is returned, and for int64 an
\* array of what the machine makes of NaN.  A negative wrapStep gives a
\* negative scale and the function returns an array.
UnwrapOutcomes(phi, dtype, wrapStep) ==
    IF wrapStep = 0
    THEN {[err |-> "ZeroDivisionError", out |-> <<>>]}
         \cup (IF dtype = "float64"
               THEN {[err |-> "ok", out |-> [i \in 1..Len(phi) |-> NaN]]}
               ELSE {[err |-> "ok", out |-> [i \in 1..Len(phi) |-> v]] :
                        v \in NaNAsInt64})
    ELSE {[err |-> "ok", out |-> UnwrapArray(phi, dtype, wrapStep)]}

\* The calls on the arrays drawn, each <<phi, dtype, wrapStep>>
DrawnCalls ==
    {<<Floats(phi), dtype, wrapStep>> :
        phi \in PhaseInputs, dtype \in PhaseDtypes, wrapStep \in WrapSteps}

\* UnwrapOutcomes of the calls in todo, and of the calls on the arrays they
\* return with the same dtype and wrap step, added to the outcomes in done.
RECURSIVE OutcomesFrom(_, _)
OutcomesFrom(done, todo) ==
    IF todo = {} THEN done
    ELSE LET new == [c \in todo |-> UnwrapOutcomes(c[1], c[2], c[3])]
             all == done @@ new
             returned ==
                 UNION {{<<o.out, c[2], c[3]>> :
                            o \in {x \in new[c] : x.err = "ok"}} :
                        c \in {x \in todo : x[3] # 0}}
         IN  OutcomesFrom(all, returned \ DOMAIN all)

\* UnwrapOutcomes of every call the steps below make, computed once.
DrawnOutcomes == OutcomesFrom(<<>>, DrawnCalls)

\* The call _unwrap(phi, wrapStep) has ended in outcome o.
Unwrapped(phi, dtype, wrapStep, o) ==
    /\ uw' = [op |-> "_unwrap", phi |-> phi, dtype |-> dtype,
              wrapStep |-> wrapStep, err |-> o.err, out |-> o.out]
    /\ UNCHANGED <<libvars, refvars, dcall, rdvars>>

\* _unwrap is called on a new array.
Unwrap(phi, dtype, wrapStep) ==
    \E o \in DrawnOutcomes[<<Floats(phi), dtype, wrapStep>>] :
        Unwrapped(Floats(phi), dtype, wrapStep, o)

\* The calls on an array one of the calls returned, with the same dtype and
\* wrap step
ReturnedCalls ==
    UNION {{<<o.out, c[2], c[3]>> :
               o \in {x \in DrawnOutcomes[c] : x.err = "ok"}} :
           c \in {x \in DOMAIN DrawnOutcomes : x[3] # 0}}

\* The array phi the last call returned is unwrapped again with the same
\* step.
UnwrapAgain(phi, dtype, wrapStep) ==
    \E o \in DrawnOutcomes[<<phi, dtype, wrapStep>>] :
        /\ uw.op = "_unwrap" /\ uw.err = "ok"
        /\ uw.wrapStep = wrapStep /\ uw.dtype = dtype /\ uw.out = phi
        /\ Unwrapped(phi, dtype, wrapStep, o)

UnwrapInit == RefInit

UnwrapNext ==
    \/ \E phi \in PhaseInputs, dtype \in PhaseDtypes, wrapStep \in WrapSteps :
          Unwrap(phi, dtype, wrapStep)
    \/ \E c \in ReturnedCalls : UnwrapAgain(c[1], c[2], c[3])

UnwrapSpec == UnwrapInit /\ [][UnwrapNext]_vars

-----------------------------------------------------------------------------
(* The calls of the miniDAS reference reader *)

\* writeDAS(fname, traces, ..., elevations) with a file name given and the
\* default meta={}, reader.py:174-273.  h5py.File(fname, "w") truncates the
\* file; the traces and the attribute "format" are stored, then line 242
\* evaluates the global name "version".  What was stored when a line raises
\* stays in the file the with statement closes.
ReaderWriteDAS(fname, h) ==
    LET bound == "version" \in DOMAIN ReaderGlobals
        call == [ReaderNoCall EXCEPT !.op = "writeDAS", !.file = fname]
    IN  /\ mfs' = [mfs EXCEPT ![fname] =
                      IF bound
                      THEN [exists |-> TRUE, traces |-> h.traces,
                            attrs |-> ReaderAttrs(h, ReaderGlobals.version),
                            objs |-> <<[path |-> "meta", kind |-> "group"]>>]
                      ELSE [exists |-> TRUE, traces |-> h.traces,
                            attrs |-> [format |-> "miniDAS"], objs |-> <<>>]]
        /\ mlast' = IF bound THEN call
                    ELSE [call EXCEPT !.err = "NameError", !.line = 242]
        /\ UNCHANGED <<libvars, refvars, dcall, uw>>

\* The scaling of readDAS, reader.py:322-325
ApplyScaling(das) ==
    [das EXCEPT
        !.traces = [dtype |-> das.traces.dtype,
                    vals |-> [c \in DOMAIN das.traces.vals |->
                                [k \in DOMAIN das.traces.vals[c] |->
                                    das.traces.vals[c][k] * das.scale_factor]]],
        !.data_units = das.units_after_scaling,
        !.scale_factor = 1]

\* readDAS(fname, apply_scaling), reader.py:277-327.  A missing file makes
\* h5py.File raise; a file without the attribute "format", or with another
\* format, raises Exception; line 300 reads the attribute "version" and line
\* 301 evaluates the global name "version".  Every file drawn that has the
\* attribute "version" has the other attributes, "traces" and "meta" too.
ReaderReadDAS(fname, apply_scaling) ==
    LET f == mfs[fname]
        call == [ReaderNoCall EXCEPT !.op = "readDAS", !.file = fname,
                                     !.apply_scaling = apply_scaling]
        das == [format |-> f.attrs.format, version |-> f.attrs.version,
                traces |-> f.traces, data_units |-> f.attrs.data_units,
                scale_factor |-> f.attrs.scale_factor,
                units_after_scaling |-> f.attrs.units_after_scaling,
                start_time |-> f.attrs.start_time,
                sampling_rate |-> f.attrs.sampling_rate,
                gauge_length |-> f.attrs.gauge_length,
                latitudes |-> f.attrs.latitudes,
                longitudes |-> f.attrs.longitudes,
                elevations |-> f.attrs.elevations,
                meta |-> ReadDictInH5("meta", f.objs)]
    IN  /\ mlast' =
              IF ~f.exists
              THEN [call EXCEPT !.err = "FileNotFoundError", !.line = 288]
              ELSE IF "format" \notin DOMAIN f.attrs
              THEN [call EXCEPT !.err = "Exception", !.line = 290]
              ELSE IF f.attrs.format # "miniDAS"
              THEN [call EXCEPT !.err = "Exception", !.line = 295]
              ELSE IF "version" \notin DOMAIN f.attrs
              THEN [call EXCEPT !.err = "KeyError", !.line = 300]
              ELSE IF "version" \notin DOMAIN ReaderGlobals
              THEN [call EXCEPT !.err = "NameError", !.line = 301]
              ELSE IF f.attrs.version # ReaderGlobals.version
              THEN [call EXCEPT !.err = "Exception", !.line = 302]
              ELSE [call EXCEPT !.das = IF apply_scaling
                                        THEN ApplyScaling(das) ELSE das]
        /\ UNCHANGED <<mfs, libvars, refvars, dcall, uw>>

ReaderInit ==
    /\ mfs \in [ReaderPaths -> ReaderInitialFiles]
    /\ mlast = ReaderNoCall
    /\ rfs = [p \in RefPaths |-> RefNoFile]
    /\ rlast = RefNoCall
    /\ dcall = DictNoCall
    /\ uw = UnwrapNoCall
    /\ fs = [p \in Paths |-> NoFile]
    /\ metas = <<>>
    /\ containers = <<>>
    /\ leaked = [p \in Paths |-> 0]
    /\ last = NoCall

ReaderNext ==
    \/ \E fname \in ReaderPaths, h \in ReaderHeaders : ReaderWriteDAS(fname, h)
    \/ \E fname \in ReaderPaths, apply_scaling \in BOOLEAN :
          ReaderReadDAS(fname, apply_scaling)

ReaderSpec == ReaderInit /\ [][ReaderNext]_vars

-----------------------------------------------------------------------------
(* Properties *)

\* The fields the comparison of two containers looks at, beside the traces.
ComparedFields ==
    {"data_unit", "units_after_scaling", "start_time_ns", "sampling_rate",
     "gauge_length", "strain_scale_factor", "latitudes", "longitudes",
     "elevations"}

\* Container j was opened from the file container i wrote, with no other
\* write to that file in between.
OpenedFrom(i, j) ==
    /\ i < j
    /\ containers[i].src = "from_numpy"
    /\ containers[j].src = "open"
    /\ containers[j].file = containers[i].file
    /\ \A k \in (i + 1)..(j - 1) :
          ~(containers[k].src = "from_numpy"
            /\ containers[k].file = containers[i].file)

\* Valid inputs of a write: a dtype of the list, units of their enumerated
\* sets, and geometry arrays of the length of the channel axis.
ValidInputs(data, meta) ==
    /\ data.dtype \in AllowedDtypes
    /\ meta.data_unit \in DataUnit
    /\ meta.units_after_scaling \in ScaledUnit
    /\ Len(meta.latitudes) = NChannels(data)
    /\ Len(meta.longitudes) = NChannels(data)
    /\ Len(meta.elevations) = NChannels(data)

\* The step is the call from_numpy(file, data, metas[m], force).  The
\* conjuncts before FromNumpy follow from it: they are what the call records
\* of its arguments, and they are evaluated first.
FromNumpyCalled(file, data, m, force) ==
    /\ last'.op = "from_numpy"
    /\ last'.file = file
    /\ last'.force = force
    /\ last'.err = "ok" =>
          /\ containers'[last'.ret].given = data
          /\ containers'[last'.ret].meta = m
    /\ FromNumpy(file, data, m, force)

\* C1. Round trip: a container opened from the file that from_numpy wrote
\* has the units, start time, sampling rate, gauge length, scale factor and
\* geometry arrays of the Meta that was written, and while it is open the
\* traces (values and dtype) it reads are the array that was written.
RoundTrip ==
    \A i \in 1..Len(containers), j \in 1..Len(containers) :
        OpenedFrom(i, j) =>
            /\ \A f \in ComparedFields :
                  metas[containers[j].meta][f] = metas[containers[i].meta][f]
            /\ containers[j].open =>
                  fs[containers[j].file].data = containers[i].given

\* C1 witness: a file written from a Meta with non-default fields has been
\* opened and both containers are still open.
RoundTripWitness ==
    \E i \in 1..Len(containers), j \in 1..Len(containers) :
        /\ OpenedFrom(i, j)
        /\ containers[i].open /\ containers[j].open
        /\ metas[containers[i].meta].strain_scale_factor = 2

\* C2 as stated. A write to an existing destination fails with OSError
\* (format.py:125) without force; with force a write of valid inputs
\* succeeds.
OverwriteGuard ==
    [][\A file \in Paths, data \in DataInputs, m \in 1..Len(metas),
         force \in BOOLEAN :
        (fs[file].exists /\ FromNumpyCalled(file, data, m, force)) =>
            IF ~force
            THEN last'.err = "OSError" /\ last'.line = 125
            ELSE ValidInputs(data, metas[m]) => last'.err = "ok"]_vars

\* C2 amended. A write to an existing destination without force fails with
\* OSError (format.py:125) and leaves every file as it was.  With force, a
\* write of valid inputs succeeds when no handle is open on the destination,
\* and the file then holds the new array, the version and the fields of the
\* new Meta and nothing else, so that open accepts it and reads the new
\* schema; while a handle is open on the destination the write fails with
\* OSError from h5py (format.py:136) and leaves every file as it was.
OverwriteGuardAmended ==
    [][\A file \in Paths, data \in DataInputs, m \in 1..Len(metas),
         force \in BOOLEAN :
        (fs[file].exists /\ FromNumpyCalled(file, data, m, force)) =>
            IF ~force
            THEN last'.err = "OSError" /\ last'.line = 125 /\ fs' = fs
            ELSE ValidInputs(data, metas[m]) =>
                 IF OpenHandles(file) > 0
                 THEN last'.err = "OSError" /\ last'.line = 136 /\ fs' = fs
                 ELSE /\ last'.err = "ok"
                      /\ fs'[file].data = data
                      /\ fs'[file].attrs =
                            [version |-> ClassVersion] @@ metas[m]
                      /\ IsValidResult(fs'[file]) = <<"ok", TRUE>>
                      /\ KwargsAccepted(AttrsWithoutVersion(fs'[file].attrs))
                      /\ \A f \in ComparedFields :
                            MetaOf(AttrsWithoutVersion(fs'[file].attrs))[f]
                                = metas[m][f]]_vars

\* C2 witness: a forced write over an existing file has succeeded.
OverwriteGuardWitness ==
    /\ last.op = "from_numpy" /\ last.existed /\ last.force
    /\ last.err = "ok"

\* The file holds the dataset and a version attribute other than the
\* version of the class.
OtherVersion(f) ==
    /\ f.exists /\ f.hasDataset
    /\ "version" \in DOMAIN f.attrs
    /\ f.attrs["version"] # ClassVersion

\* C3. Version gate: open of a file whose version attribute differs from
\* miniDAS.version raises AttributeError (format.py:186), constructs no
\* container and no Meta, and keeps no handle open, whatever the dataset and
\* the other attributes are.
VersionGate ==
    [][(last'.op = "open" /\ OtherVersion(fs[last'.file])) =>
        /\ last'.err = "AttributeError" /\ last'.line = 186
        /\ last'.ret = 0
        /\ UNCHANGED <<fs, metas, containers, leaked>>]_vars

\* C3 witness: open has refused a file of another version.
VersionGateWitness ==
    /\ last.op = "open" /\ last.err = "AttributeError" /\ last.line = 186
    /\ OtherVersion(fs[last.file])

\* C4. Format-identity gate: open of an HDF5 file that has no dataset
\* "miniDAS" raises AttributeError from is_valid (format.py:163), before
\* any attribute or trace is read: no container, no Meta, no handle left.
FormatGate ==
    [][(last'.op = "open" /\ fs[last'.file].exists
            /\ ~fs[last'.file].hasDataset) =>
        /\ last'.err = "AttributeError" /\ last'.line = 163
        /\ last'.ret = 0
        /\ UNCHANGED <<fs, metas, containers, leaked>>]_vars

\* C4 witness: open has refused a file without the dataset.
FormatGateWitness ==
    /\ last.op = "open" /\ last.err = "AttributeError" /\ last.line = 163
    /\ fs[last.file].exists /\ ~fs[last.file].hasDataset

\* C5 as stated. Constructing a Meta whose latitudes and longitudes have
\* different lengths raises, whatever the length of elevations.
MetaGeometryChecked ==
    [][\A kw \in MetaInputs :
        (MetaNew(kw) /\ Len(kw.latitudes) # Len(kw.longitudes)) =>
            last'.err = "AttributeError"]_vars

\* C6 as stated. Every open container has latitudes, longitudes and
\* elevations of the length of the channel axis of its dataset.
GeometryInvariant ==
    \A i \in 1..Len(containers) :
        containers[i].open =>
            LET m == metas[containers[i].meta]
                n == NChannels(fs[containers[i].file].data)
            IN  /\ Len(m.latitudes) = n
                /\ Len(m.longitudes) = n
                /\ Len(m.elevations) = n

\* C7. Dtype allow-list: from_numpy given an array whose dtype is none of
\* int16, int32, float32 raises (TypeError, format.py:128, when the
\* overwrite guard lets the call through) and writes nothing, and the
\* dataset of every file a successful from_numpy leaves has a dtype of the
\* list.
DtypeAllowList ==
    [][\A file \in Paths, data \in DataInputs, m \in 1..Len(metas),
         force \in BOOLEAN :
        FromNumpyCalled(file, data, m, force) =>
            /\ data.dtype \notin AllowedDtypes =>
                  /\ last'.err # "ok"
                  /\ (~fs[file].exists \/ force) =>
                        (last'.err = "TypeError" /\ last'.line = 128)
                  /\ fs' = fs
            /\ last'.err = "ok" =>
                  /\ fs'[file].hasDataset
                  /\ fs'[file].data.dtype \in AllowedDtypes]_vars

\* C7 witness: from_numpy has refused an array of another dtype.
DtypeAllowListWitness ==
    last.op = "from_numpy" /\ last.err = "TypeError" /\ last.line = 128

\* C8 as stated. A file from_numpy has written has a data_unit and a
\* units_after_scaling of their enumerated sets.
UnitsChecked ==
    (last.op = "from_numpy" /\ last.err = "ok") =>
        /\ fs[last.file].attrs["data_unit"] \in DataUnit
        /\ fs[last.file].attrs["units_after_scaling"] \in ScaledUnit

\* C9. All-or-nothing write: when from_numpy raises because of the dtype
\* (format.py:128) or of the channel count (format.py:131), no file has
\* been created or changed.
AllOrNothing ==
    [][(last'.op = "from_numpy"
            /\ last'.err \in {"TypeError", "AttributeError"}) =>
        fs' = fs]_vars

\* C9 witness: a forced write over an existing file has failed on the
\* channel count.
AllOrNothingWitness ==
    /\ last.op = "from_numpy" /\ last.err = "AttributeError"
    /\ last.line = 131 /\ last.existed /\ last.force
    /\ fs[last.file].exists

-----------------------------------------------------------------------------
(* Properties of the reference format *)

\* The paths of the list values of a tree, depth first, siblings in
\* insertion order.
RECURSIVE ListPaths(_, _), ListPathsOfItems(_, _)
ListPaths(path, t) ==
    IF t.kind = "list" THEN <<path>>
    ELSE IF t.kind = "dict" THEN ListPathsOfItems(path, t.v)
    ELSE <<>>

ListPathsOfItems(path, items) ==
    IF items = <<>> THEN <<>>
    ELSE ListPaths(path \o "/" \o Head(items).k, Head(items).v)
             \o ListPathsOfItems(path, Tail(items))

\* C10. writeDAS given a metadata tree that holds a list, at any depth,
\* raises TypeError (DAS_Format_reference.py:212) with the message that
\* names the "/"-joined path, from "meta", of the first list of the tree.
ListRejected ==
    (rlast.op = "writeDAS" /\ ListPaths("meta", rlast.meta) # <<>>) =>
        /\ rlast.err = "TypeError"
        /\ rlast.line = 212
        /\ rlast.msg = "Type 'LIST' for field '"
                           \o ListPaths("meta", rlast.meta)[1]
                           \o "' is not supported in HDF5 format"

\* C10 witness: a list two keys below the root, after a sibling that was
\* stored, is rejected by its path.
ListRejectedWitness ==
    /\ rlast.op = "writeDAS" /\ rlast.err = "TypeError"
    /\ rlast.msg =
           "Type 'LIST' for field 'meta/b/c' is not supported in HDF5 format"
    /\ \E i \in 1..Len(rfs[rlast.file].objs) :
           rfs[rlast.file].objs[i].path = "meta/a"

\* C11. No partial output on rejected metadata: when writeDAS raises for a
\* list in the tree, the destination holds no traces, no attributes and no
\* group or dataset of the tree.
NoPartialOutput ==
    (rlast.op = "writeDAS" /\ rlast.err = "TypeError") =>
        /\ rfs[rlast.file].traces = NoData
        /\ rfs[rlast.file].attrs = <<>>
        /\ rfs[rlast.file].objs = <<>>

\* Structural equality of two metadata trees, whatever the order of the
\* keys of a dictionary.
RECURSIVE TreeEq(_, _)
TreeEq(t, u) ==
    /\ t.kind = u.kind
    /\ IF t.kind = "dict"
       THEN /\ {t.v[i].k : i \in 1..Len(t.v)} = {u.v[j].k : j \in 1..Len(u.v)}
            /\ \A i \in 1..Len(t.v), j \in 1..Len(u.v) :
                  t.v[i].k = u.v[j].k => TreeEq(t.v[i].v, u.v[j].v)
       ELSE t.v = u.v

RECURSIVE HasKind(_, _)
HasKind(t, kind) ==
    \/ t.kind = kind
    \/ /\ t.kind = "dict"
       /\ \E i \in 1..Len(t.v) : HasKind(t.v[i].v, kind)

\* The step reads with readDAS the file the step before wrote with writeDAS.
ReadsWhatWasWritten ==
    /\ rlast.op = "writeDAS" /\ rlast.err = "ok"
    /\ rlast'.op = "readDAS" /\ rlast'.file = rlast.file

\* C12 as stated. Metadata tree round trip: for a tree of scalars, strings,
\* numeric arrays and nested dictionaries (empty ones included), the tree
\* readDAS returns for the file writeDAS wrote is structurally equal to the
\* tree that was written, whatever the order of the keys.
MetaRoundTrip ==
    [][ReadsWhatWasWritten =>
          /\ rlast'.err = "ok"
          /\ TreeEq(rlast'.das.meta, rlast.meta)]_vars

\* The part of C12 that holds: a tree without strings comes back equal.
MetaRoundTripNoStr ==
    [][(ReadsWhatWasWritten /\ ~HasKind(rlast.meta, "str")) =>
          /\ rlast'.err = "ok"
          /\ TreeEq(rlast'.das.meta, rlast.meta)]_vars

-----------------------------------------------------------------------------
(* Properties of the miniDAS class, continued *)

\* round(n * 1e9 / rate), to the nearest integer and to the even one of two
\* equally near, in steps that stay below 2^31.
RoundedSpan(rate, n) ==
    LET whole == (NsPerSec \div rate) * n + ((NsPerSec % rate) * n) \div rate
        rest == ((NsPerSec % rate) * n) % rate
    IN  IF 2 * rest > rate THEN whole + 1
        ELSE IF 2 * rest = rate THEN whole + (whole % 2)
        ELSE whole

\* The call returned a container: the one it returned and the Meta it holds.
Returned == containers[last.ret]
ReturnedMeta == metas[Returned.meta]

\* C13 as stated. Derived end time: the container that from_numpy or open
\* returns has an end_time_ns not before its start_time_ns and equal to
\* start_time_ns + round(n_samples * delta_t * 1e9), delta_t being
\* 1 / sampling_rate, whatever end_time_ns the file or the Meta held.
DerivedEndTime ==
    (last.op \in {"from_numpy", "open"} /\ last.err = "ok") =>
        /\ ReturnedMeta.end_time_ns >= ReturnedMeta.start_time_ns
        /\ ReturnedMeta.end_time_ns =
              ReturnedMeta.start_time_ns
                  + RoundedSpan(ReturnedMeta.sampling_rate,
                                NSamples(fs[Returned.file].data))

\* The part of C13 that holds: the end time is the one line 97 derives in
\* binary64, the fraction of a nanosecond cut off, and is never the value
\* that was stored or supplied.
DerivedEndTimeTruncated ==
    (last.op \in {"from_numpy", "open"} /\ last.err = "ok") =>
        /\ ReturnedMeta.end_time_ns >= ReturnedMeta.start_time_ns
        /\ ReturnedMeta.end_time_ns =
              EndTimes[ReturnedMeta.start_time_ns,
                       ReturnedMeta.sampling_rate,
                       NSamples(fs[Returned.file].data)]

\* C14. close is idempotent: close() on a container from_numpy or open
\* returned never raises, whether the container was still open or already
\* closed; after it the handle of the container is released, no file and no
\* other handle is touched, and a released handle is never open again.
CloseIdempotent ==
    [][/\ last'.op = "close" =>
             /\ last'.err = "ok"
             /\ ~containers'[last'.ret].open
             /\ \A c \in 1..Len(containers) :
                   c # last'.ret => containers'[c] = containers[c]
             /\ UNCHANGED <<fs, metas, leaked>>
        /\ \A c \in 1..Len(containers) :
              ~containers[c].open => ~containers'[c].open]_vars

\* C14 witness: close has been called on a container that was closed
\* already, and returned.
CloseIdempotentWitness ==
    /\ last.op = "close" /\ ~last.wasOpen /\ last.err = "ok"
    /\ ~containers[last.ret].open

-----------------------------------------------------------------------------
(* Properties of checkDASFileFormat and compareDASdicts *)

\* The invariants a loaded dictionary can violate, in the order of the check,
\* each with what is reported for it.
Violations(das) ==
    LET all == <<[bad |-> das.DASFileVersion # RefVersion,
                  text |-> VersionMessage],
                 [bad |-> Len(das.lats) # Len(das.longs),
                  text |-> LongsMessage],
                 [bad |-> Len(das.lats) # Len(das.elev),
                  text |-> ElevMessage],
                 [bad |-> das.traces.dtype # "float32",
                  text |-> "Traces seem to be stored as " \o das.traces.dtype
                               \o " but only float32 are allowed"],
                 [bad |-> Upper(das.domain) \notin {"STRAIN", "STRAINRATE"},
                  text |-> DomainMessage(das)]>>
        found == SelectSeq(all, LAMBDA v : v.bad)
    IN  [i \in 1..Len(found) |-> found[i].text]

\* C15 as stated. Schema validation is total and ordered: for every loaded
\* dictionary checkDASFileFormat returns; it reports every violated
\* invariant, in the order version, geometry lengths, dtype, domain; and it
\* returns True exactly when none is violated.
CheckTotalOrdered ==
    dcall.op = "checkDASFileFormat" =>
        /\ dcall.err = "ok"
        /\ dcall.msg = <<"ERROR:">> \o Violations(dcall.a)
        /\ dcall.valid = (Violations(dcall.a) = <<>>)

\* The part of C15 that holds: for float32 traces the check returns, with
\* every violation reported in order.
CheckOrderedFloat32 ==
    (dcall.op = "checkDASFileFormat" /\ dcall.a.traces.dtype = "float32") =>
        /\ dcall.err = "ok"
        /\ dcall.msg = <<"ERROR:">> \o Violations(dcall.a)
        /\ dcall.valid = (Violations(dcall.a) = <<>>)

\* Several violations of one float32 dictionary have been reported at once.
CheckOrderedSeveral ==
    /\ dcall.op = "checkDASFileFormat" /\ dcall.err = "ok"
    /\ Len(dcall.msg) >= 4

\* C16 as stated. Comparator trace check (tolerance 0): two dictionaries
\* whose traces differ in at least one sample are reported unequal, with
\* the trace message, even if other samples agree.
TraceMismatchReported ==
    (dcall.op = "compareDASdicts"
        /\ Max(AbsDiffs(dcall.a.traces.vals, dcall.b.traces.vals)) > 0) =>
        /\ ~dcall.valid
        /\ \E i \in 1..Len(dcall.msg) : dcall.msg[i] = TraceMessage

\* C17 as stated. Comparator domain check: two dictionaries whose domains
\* differ after case folding are reported unequal, with the domain message,
\* and domains that differ only in letter case give no domain message.
DomainMismatchReported ==
    dcall.op = "compareDASdicts" =>
        LET said == \E i \in 1..Len(dcall.msg) :
                        dcall.msg[i] = DomainsMessage(dcall.b)
        IN  IF Upper(dcall.a.domain) # Upper(dcall.b.domain)
            THEN ~dcall.valid /\ said
            ELSE ~said

-----------------------------------------------------------------------------
(* Properties of _unwrap *)

\* The distance of x and y, exactly: the whole number m of units 2^e
Distance(x, y) ==
    LET al == FAlign(x, y)
    IN  [m |-> IF x.s # y.s /\ x.m # <<>> /\ y.m # <<>>
               THEN BAdd(al.a, al.b)
               ELSE IF BCmp(al.a, al.b) >= 0 THEN BSub(al.a, al.b)
               ELSE BSub(al.b, al.a),
         e |-> al.e]

\* The digits of the whole number w in units of 2^e, and those of m beside
\* them (for e > 0 it is m that is moved)
InUnits(m, w, e) ==
    IF e < 0 THEN [m |-> m, w |-> BShl(BFromInt(w), -e)]
    ELSE [m |-> BShl(m, e), w |-> BFromInt(w)]

\* x - y is a whole multiple of the whole number w > 0, exactly
WholeMultiple(x, y, w) ==
    LET d == Distance(x, y)
        u == InUnits(d.m, w, d.e)
    IN  BDivMod(u.m, u.w).r = <<>>

\* |x - y| <= w / 2, exactly
WithinHalf(x, y, w) ==
    LET d == Distance(x, y)
        u == InUnits(d.m, w, d.e)
    IN  BCmp(BMulSmall(u.m, 2), u.w) <= 0

\* C18 as stated. Phase unwrap bound: for wrapStep > 0 the array _unwrap
\* returns has the length of its input, each element differs from the input
\* element by a whole multiple of wrapStep, the first element is the
\* input's, and two consecutive elements differ by at most wrapStep / 2.
UnwrapBound ==
    (uw.op = "_unwrap" /\ uw.wrapStep > 0) =>
        /\ uw.err = "ok"
        /\ Len(uw.out) = Len(uw.phi)
        /\ \A i \in 1..Len(uw.phi) :
              WholeMultiple(uw.out[i], uw.phi[i], uw.wrapStep)
        /\ uw.out[1] = uw.phi[1]
        /\ \A i \in 1..(Len(uw.out) - 1) :
              WithinHalf(uw.out[i + 1], uw.out[i], uw.wrapStep)

\* x is within 2^-40 of a number z with z - y a whole multiple of w: the
\* multiple nearest to x - y is tried.
NearMultiple(x, y, w) ==
    LET q == FDiv(FSub(x, y), FInt(w))
        k == FTrunc(FAdd(q, IF q.s = 1 THEN FDiv(FInt(1), FInt(2))
                                      ELSE FDiv(FInt(-1), FInt(2))))
        d == Distance(x, FAdd(y, FInt(k * w)))
    IN  FLess(FCanon(1, d.m, d.e), [s |-> 1, m |-> <<1>>, e |-> -40])

\* The part of C18 that holds for a float64 array: the length and the first
\* element are the input's, each element lies within 2^-40 of a whole
\* multiple of wrapStep off the input element, and two consecutive elements
\* differ by less than wrapStep / 2 + 2^-40.
UnwrapBoundRounded ==
    (uw.op = "_unwrap" /\ uw.wrapStep > 0 /\ uw.dtype = "float64") =>
        /\ uw.err = "ok"
        /\ Len(uw.out) = Len(uw.phi)
        /\ uw.out[1] = uw.phi[1]
        /\ \A i \in 1..Len(uw.phi) :
              NearMultiple(uw.out[i], uw.phi[i], uw.wrapStep)
        /\ \A i \in 1..(Len(uw.out) - 1) :
              FLess(FAbs(FSub(uw.out[i + 1], uw.out[i])),
                    FAdd(FDiv(FInt(uw.wrapStep), FInt(2)),
                         [s |-> 1, m |-> <<1>>, e |-> -40]))

\* C19 as stated. Phase unwrap idempotence: for wrapStep > 0, _unwrap of an
\* array _unwrap returned (same wrapStep) returns that array again; an array
\* of one element is returned as it is.
UnwrapIdempotent ==
    [][(/\ uw.op = "_unwrap" /\ uw.err = "ok" /\ uw.wrapStep > 0
        /\ uw'.op = "_unwrap" /\ uw'.wrapStep = uw.wrapStep
        /\ uw'.dtype = uw.dtype /\ uw'.phi = uw.out)
            => uw'.out = uw.out]_vars

\* The part of C19 that holds: an array of one element is returned as it is,
\* and so is an array whose neighbours all differ by less than half a wrap
\* step and 2^-40 less.
UnwrapIdempotentInside ==
    [][(/\ uw.op = "_unwrap" /\ uw.err = "ok" /\ uw.wrapStep > 0
        /\ uw'.op = "_unwrap" /\ uw'.wrapStep = uw.wrapStep
        /\ uw'.dtype = uw.dtype /\ uw'.phi = uw.out
        /\ \A i \in 1..(Len(uw.out) - 1) :
              FLess(FAbs(FSub(uw.out[i + 1], uw.out[i])),
                    FSub(FDiv(FInt(uw.wrapStep), FInt(2)),
                         [s |-> 1, m |-> <<1>>, e |-> -40])))
            => uw'.out = uw.out]_vars

\* C20 as stated. Phase unwrap parameter check: _unwrap called with
\* wrapStep <= 0 raises and returns no array.
UnwrapRejectsNonPositive ==
    (uw.op = "_unwrap" /\ uw.wrapStep <= 0) =>
        (uw.err # "ok" /\ uw.out = <<>>)

-----------------------------------------------------------------------------
(* Properties of the miniDAS class: is_valid, stored end time, handles *)

\* C22 as stated. is_valid is a total boolean check: for every file that is
\* there, is_valid returns, True exactly when the file holds the dataset
\* "miniDAS" with the version of the class and False otherwise (a file
\* without the dataset included), and it leaves no handle open.
IsValidTotal ==
    [][(last'.op = "is_valid" /\ fs[last'.file].exists) =>
          /\ last'.err = "ok"
          /\ last'.valid =
                (/\ fs[last'.file].hasDataset
                 /\ "version" \in DOMAIN fs[last'.file].attrs
                 /\ fs[last'.file].attrs["version"] = ClassVersion)
          /\ UNCHANGED <<fs, metas, containers, leaked>>]_vars

\* The part of C22 that holds: on a file with the dataset is_valid returns
\* the boolean, and on every path it leaves files and handles as they were.
IsValidOnDataset ==
    [][last'.op = "is_valid" =>
          /\ (fs[last'.file].exists /\ fs[last'.file].hasDataset) =>
                /\ last'.err = "ok"
                /\ last'.valid = (fs[last'.file].attrs["version"] = ClassVersion)
          /\ UNCHANGED <<fs, metas, containers, leaked>>]_vars

\* C23 as stated. Persisted end time: after a successful from_numpy the
\* end_time_ns attribute of the file is the derived value, the one the
\* container that was returned holds, not the one the Meta had before.
PersistedEndTime ==
    (last.op = "from_numpy" /\ last.err = "ok") =>
        fs[last.file].attrs["end_time_ns"] = ReturnedMeta.end_time_ns

\* What the code does instead: the attribute is the end_time_ns the caller's
\* Meta held when from_numpy was called.
PersistedEndTimeIsOld ==
    [][(last'.op = "from_numpy" /\ last'.err = "ok") =>
          fs'[last'.file].attrs["end_time_ns"] =
              metas[containers'[last'.ret].meta].end_time_ns]_vars

\* C24 as stated. Handle release on every exit path: no handle stays open
\* that no returned, not yet closed container owns.
NoUnownedHandle == \A p \in Paths : leaked[p] = 0

\* The part of C24 that holds: from_numpy, is_valid and close leave no
\* handle without an owner; only an open that fails after h5py.File does.
UnownedOnlyFromOpen ==
    [][leaked' # leaked =>
          \/ /\ last'.op = "open" /\ last'.err # "ok" /\ last'.line \in {193, 80}
             /\ leaked'[last'.file] = leaked[last'.file] + 1
          \/ last'.op = "collect"]_vars

-----------------------------------------------------------------------------
(* Properties of compareDASdicts, continued *)

\* The schema fields of a loaded dictionary beside domain and traces.
SchemaFields == {"DASFileVersion", "t0", "fsamp", "GL", "lats", "longs", "elev"}

\* The fields compareDASdicts reports on, each with its message.
FieldMessages ==
    [DASFileVersion |-> "File Versions do not match",
     t0 |-> "T0 value doesn't match",
     fsamp |-> "fsamp value doesn't match",
     longs |-> "longs value don't match",
     lats |-> "lats value don't match",
     elev |-> "elev value don't match"]

Differing(das1, das2, fields) == {f \in fields : das1[f] # das2[f]}

\* C25 as stated. Comparator covers every schema field: two dictionaries
\* that differ in the version, start time, sampling rate, gauge length or a
\* geometry array are reported unequal, with at least one message for each
\* field that differs.
ComparatorCovers ==
    dcall.op = "compareDASdicts" =>
        LET diff == Differing(dcall.a, dcall.b, SchemaFields)
        IN  /\ diff # {} => ~dcall.valid
            /\ Len(dcall.msg) - 1 >= Cardinality(diff)

\* The part of C25 that holds: for each of the six fields compareDASdicts
\* looks at, its message is reported exactly when the field differs.
ComparatorCoversSix ==
    dcall.op = "compareDASdicts" =>
        \A f \in DOMAIN FieldMessages :
            (dcall.a[f] # dcall.b[f]) <=>
                (\E i \in 1..Len(dcall.msg) : dcall.msg[i] = FieldMessages[f])

\* Three of the six fields differ at once and three messages are reported.
ComparatorSeveral ==
    /\ dcall.op = "compareDASdicts"
    /\ Cardinality(Differing(dcall.a, dcall.b, DOMAIN FieldMessages)) >= 3

-----------------------------------------------------------------------------
(* Properties of the miniDAS class: the Meta of a container *)

\* C26 as stated. Schema immutability across containers: the Meta a
\* container holds, end_time_ns included, is changed by no later operation.
SchemaImmutable ==
    [][\A i \in 1..Len(containers) :
          metas'[containers'[i].meta] = metas[containers[i].meta]]_vars

\* The part of C26 that holds: a container keeps the Meta object it was
\* constructed with, and no operation changes a field of a Meta other than
\* end_time_ns.
SchemaImmutableButEndTime ==
    [][/\ \A i \in 1..Len(containers) : containers'[i].meta = containers[i].meta
       /\ \A m \in 1..Len(metas) :
             [metas'[m] EXCEPT !.end_time_ns = 0] =
                 [metas[m] EXCEPT !.end_time_ns = 0]]_vars


-----------------------------------------------------------------------------
(* Properties of the miniDAS reference reader *)

\* A miniDAS file: the format marker, a version and every other attribute.
IsMiniDASFile(f) ==
    /\ f.exists
    /\ "format" \in DOMAIN f.attrs /\ f.attrs.format = "miniDAS"
    /\ "version" \in DOMAIN f.attrs
    /\ "scale_factor" \in DOMAIN f.attrs

\* C21 as stated.  Unit scaling: reading a miniDAS file with scaling applied
\* returns every trace sample multiplied by the stored scale_factor, the
\* data unit set to units_after_scaling and scale_factor set to 1.
ScalingApplied ==
    (/\ mlast.op = "readDAS" /\ mlast.apply_scaling
     /\ IsMiniDASFile(mfs[mlast.file])) =>
        LET f == mfs[mlast.file]
        IN  /\ mlast.err = "ok"
            /\ mlast.das.traces.vals =
                  [c \in DOMAIN f.traces.vals |->
                     [k \in DOMAIN f.traces.vals[c] |->
                         f.traces.vals[c][k] * f.attrs.scale_factor]]
            /\ mlast.das.data_units = f.attrs.units_after_scaling
            /\ mlast.das.scale_factor = 1

\* What holds instead: no call of readDAS returns a dictionary, with or
\* without scaling, and a miniDAS file makes it raise NameError at line 301.
ReadNeverReturns ==
    mlast.op = "readDAS" =>
        /\ mlast.err # "ok"
        /\ mlast.das = ReaderNoDas
        /\ IsMiniDASFile(mfs[mlast.file]) =>
              (mlast.err = "NameError" /\ mlast.line = 301)

\* A miniDAS file has been read with scaling.
ScaledReadMade ==
    /\ mlast.op = "readDAS" /\ mlast.apply_scaling
    /\ IsMiniDASFile(mfs[mlast.file])

====
